---- MODULE Spec2Model ----
(***************************************************************************)
(* Model of cvp-pyez: the CVP REST session (cvppyez/rest/client.py) and    *)
(* the Nornir inventory plugin (cvppyez/nornir/plugin_inventory.py).       *)
(*                                                                         *)
(* Python strings that are taken apart by the code (request addresses)     *)
(* are sequences of string fragments; concatenation is \o.  Python dicts   *)
(* are functions; a missing key is a value outside the DOMAIN, and a       *)
(* lookup or `del` of a missing key is the KeyError outcome.               *)
(***************************************************************************)
EXTENDS Integers, Sequences, FiniteSets, TLC

VARIABLES
    pc,            \* position of the running constructor / handler
    error,         \* exception that ended the run ("none" while running)
    args,          \* CvpSession(server, username, password, login) arguments
    env,           \* os.environ restricted to the names in CvpSession.ENV
    host_url,      \* CvpSession.host_url
    auth,          \* CvpSession._auth
    version,       \* CvpSession.version
    login_resp,    \* the authenticate response as the server sent it
    reqlog,        \* every HTTP request issued so far, in order
    body,          \* registry response   (GET /inventory/devices)
    hosts,         \* local `hosts` of CVPInventory.__init__
    sn_to_hn,      \* local `sn_to_hn`
    host_status,   \* local `host_status`
    groupby_tags,  \* kwargs.get('groupby_tags')
    tag_i,         \* index of the category being resolved in _get_tags
    cur_labels,    \* label records of the current category still to process
    labels_got,    \* label records returned by the server so far
    applied_got,   \* applied-device responses received so far
    r_tags,        \* local `r_tags` of _get_tags
    r_dev_tags,    \* local `r_dev_tags` of _get_tags
    groups,        \* local `groups`
    inventory,     \* what super().__init__ was given (<<>> until delivered)
    request_url,   \* request.url handed to prepare_request
    prepared,      \* outcome of prepare_request
    dataset,       \* payload handed to extracto_notifications
    extract_by,    \* its `extract` argument
    extracted      \* the dict it returned

vars == <<pc, error, args, env, host_url, auth, version, login_resp, reqlog,
          body, hosts, sn_to_hn, host_status, groupby_tags, tag_i,
          cur_labels, labels_got, applied_got, r_tags, r_dev_tags, groups,
          inventory, request_url, prepared, dataset, extract_by, extracted>>

session_vars == <<args, env, host_url, auth, version, login_resp>>
synth_vars == <<body, hosts, sn_to_hn, host_status>>
tag_vars == <<tag_i, cur_labels, labels_got, applied_got, r_tags, r_dev_tags>>
url_vars == <<request_url, prepared>>
decode_vars == <<dataset, extract_by, extracted>>

----------------------------------------------------------------------------
(* Bounds of the model: the longest list of label records in one           *)
(* response, the longest list of notifications in the Devices dataset,     *)
(* the number of distinct credential values, the longest address.          *)
MaxLabels == 1
MaxNotifs == 2
NumValues == 2
MaxAddrLen == 4

(* The names the server and the caller draw from.                          *)
HostNames == <<"a", "b">>
SerialNames == <<"S1", "S2">>
TagKeys == {"t1", "t2"}
Categories == {"role", "site"}
NetElementCounts == {0, 1}
ValueNames == <<"v1", "v2", "v3", "v4">>

Range(s) == {s[i] : i \in 1..Len(s)}

Hostnames == Range(HostNames)
Serials == Range(SerialNames)
Values == {ValueNames[i] : i \in 1..NumValues}

None == "None"
EmptyDict == [x \in {} |-> x]

(* Sequences over S of length at most n, and those without repetition.     *)
SeqUpTo(S, n) == UNION {[1..k -> S] : k \in 0..n}
DistinctSeqs(S) == {s \in SeqUpTo(S, Cardinality(S)) :
                      \A i, j \in 1..Len(s) : i # j => s[i] # s[j]}

(* Python truthiness of an optional string: None and "" are falsy.         *)
Truthy(v) == v # None /\ v # ""

----------------------------------------------------------------------------
(* cvppyez/rest/client.py: CvpClientURLs                                   *)

Dollar == "$"
Slash == "/"

SHORTCUT_KEYS == {<<"$", "a">>, <<"$", "r">>, <<"$", "c">>, <<"$", "n">>}

(* The None key of the SHORTCUTS dict.                                     *)
NoneKey == <<None>>

SHORTCUTS(key) ==
    CASE key = NoneKey -> <<"/web">>
      [] key = <<"$", "a">> -> <<"/api/v1/rest/analytics">>
      [] key = <<"$", "r">> -> <<"/api/v1/rest">>
      [] key = <<"$", "c">> -> <<"/cvpservice">>
      [] key = <<"$", "n">> -> <<"/api/v1/rest/analytics/network/v1">>

LOGIN == <<"/login/authenticate.do">>
INVENTORY == <<"/inventory/devices">>
VERSION == <<"/cvpInfo/getCvpInfo.do">>
ACTIVE_DEVICES == <<"$", "a", "/", "DatasetInfo/Devices">>
GET_LABELS == <<"/label/getLabels.do">>
GET_APPLIED_DEVICES == <<"/label/getAppliedDevices.do">>

(* str.startswith('$') and str.partition('/')                              *)
StartsWithDollar(url) == Len(url) > 0 /\ url[1] = Dollar

SlashAt(url) ==
    IF \E i \in 1..Len(url) : url[i] = Slash
    THEN CHOOSE i \in 1..Len(url) :
            url[i] = Slash /\ \A j \in 1..(i - 1) : url[j] # Slash
    ELSE 0

Partition(url) ==
    LET i == SlashAt(url)
    IN  IF i = 0
        THEN [head |-> url, sep |-> <<>>, tail |-> <<>>]
        ELSE [head |-> SubSeq(url, 1, i - 1), sep |-> <<Slash>>,
              tail |-> SubSeq(url, i + 1, Len(url))]

(* Variant: the table is read with SHORTCUTS.get(key, SHORTCUTS[None]).    *)
prepare_request_fallback(hurl, url) ==
    IF StartsWithDollar(url)
    THEN LET key == Partition(url).head
             rest == <<Slash>> \o Partition(url).tail
         IN  IF key \in SHORTCUT_KEYS
             THEN [ok |-> TRUE, url |-> hurl \o SHORTCUTS(key) \o rest]
             ELSE [ok |-> TRUE, url |-> hurl \o SHORTCUTS(NoneKey) \o rest]
    ELSE [ok |-> TRUE, url |-> hurl \o SHORTCUTS(NoneKey) \o url]

(* CvpSession.prepare_request: ok = FALSE is the KeyError of               *)
(* SHORTCUTS[key] for a key that is not in the table.                      *)
prepare_request(hurl, url) ==
    IF StartsWithDollar(url)
    THEN LET key == Partition(url).head
             rest == <<Slash>> \o Partition(url).tail
         IN  IF key \in SHORTCUT_KEYS
             THEN [ok |-> TRUE, url |-> hurl \o SHORTCUTS(key) \o rest]
             ELSE [ok |-> FALSE, url |-> <<>>]
    ELSE [ok |-> TRUE, url |-> hurl \o SHORTCUTS(NoneKey) \o url]

----------------------------------------------------------------------------
(* cvppyez/rest/client.py: CvpSession                                      *)

ENV == [username |-> <<"CVP_USER", "USER">>,
        password |-> <<"CVP_PASSWORD", "PASSWORD">>,
        server |-> <<"CVP_SERVER">>]

EnvNames == {"CVP_SERVER", "CVP_USER", "USER", "CVP_PASSWORD", "PASSWORD"}

(* first(iterable): the first truthy item, None when there is none.        *)
RECURSIVE first(_)
first(s) ==
    IF s = <<>> THEN None
    ELSE IF Truthy(Head(s)) THEN Head(s)
    ELSE first(Tail(s))

(* map(os.getenv, names)                                                   *)
getenv_all(e, names) == [i \in 1..Len(names) |-> e[names[i]]]

(* Variant: the environment is consulted before the argument.              *)
required_var_env_first(e, name, provided_value) ==
    IF Truthy(first(getenv_all(e, ENV[name])))
    THEN first(getenv_all(e, ENV[name]))
    ELSE provided_value

(* CvpSession._required_var: the value, or None where the code raises.     *)
required_var(e, name, provided_value) ==
    IF Truthy(provided_value) THEN provided_value
    ELSE first(getenv_all(e, ENV[name]))

NoError == [type |-> "none", what |-> ""]
Raise(type, what) == [type |-> type, what |-> what]

(* One HTTP request through the session: the address is resolved by        *)
(* prepare_request, the outcome `ok` is what Response.ok will report.      *)
Sent(method, address, param, ok) ==
    [method |-> method, url |-> prepare_request(host_url, address).url,
     param |-> param, ok |-> ok]

(* CvpSession.__init__ up to the call of login().                          *)
CvpSessionInit ==
    /\ pc = "init"
    /\ LET server == required_var(env, "server", args.server)
           username == required_var(env, "username", args.username)
           password == required_var(env, "password", args.password)
       IN  IF ~Truthy(server)
           THEN /\ error' = Raise("RuntimeError", "server")
                /\ pc' = "error"
                /\ UNCHANGED <<host_url, auth>>
           ELSE IF ~Truthy(username)
           THEN /\ error' = Raise("RuntimeError", "username")
                /\ pc' = "error"
                /\ host_url' = <<"https://", server>>
                /\ UNCHANGED auth
           ELSE IF ~Truthy(password)
           THEN /\ error' = Raise("RuntimeError", "password")
                /\ pc' = "error"
                /\ host_url' = <<"https://", server>>
                /\ UNCHANGED auth
           ELSE /\ host_url' = <<"https://", server>>
                /\ auth' = [userId |-> username, password |-> password]
                /\ pc' = IF args.login THEN "login" ELSE "ready"
                /\ UNCHANGED error
    /\ version' = None
    /\ UNCHANGED <<args, env, login_resp, reqlog, groupby_tags, groups,
                   inventory>>
    /\ UNCHANGED <<synth_vars, tag_vars, url_vars, decode_vars>>

VersionString == "2019.1.0"

(* CvpSession.login, first half: post the credentials, raise_for_status.   *)
LoginAuthenticate ==
    /\ pc = "login"
    /\ \E ok \in BOOLEAN, errorCode \in BOOLEAN :
        /\ login_resp' = [ok |-> ok, errorCode |-> errorCode]
        /\ reqlog' = Append(reqlog, Sent("POST", LOGIN, None, ok))
        /\ IF ok
           THEN pc' = "version" /\ UNCHANGED error
           ELSE pc' = "error" /\ error' = Raise("HTTPError", "login")
    /\ UNCHANGED <<args, env, host_url, auth, version, groupby_tags, groups,
                   inventory>>
    /\ UNCHANGED <<synth_vars, tag_vars, url_vars, decode_vars>>

(* CvpSession.login, second half: get the version, raise_for_status,       *)
(* store it.                                                               *)
LoginVersion ==
    /\ pc = "version"
    /\ \E ok \in BOOLEAN :
        /\ reqlog' = Append(reqlog, Sent("GET", VERSION, None, ok))
        /\ IF ok
           THEN pc' = "ready" /\ version' = VersionString /\ UNCHANGED error
           ELSE /\ pc' = "error"
                /\ error' = Raise("HTTPError", "version")
                /\ UNCHANGED version
    /\ UNCHANGED <<args, env, host_url, auth, login_resp, groupby_tags,
                   groups, inventory>>
    /\ UNCHANGED <<synth_vars, tag_vars, url_vars, decode_vars>>

----------------------------------------------------------------------------
(* What the CVP server can answer.                                         *)

IpAddrs == {"10.0.0.1"}
Statuses == {"active", "inactive"}

DeviceRecords == [fqdn : Hostnames, ipAddress : IpAddrs, serialNumber : Serials]

(* A registry snapshot: fqdn and serialNumber are both unique in it.       *)
Registries ==
    {b \in SUBSET DeviceRecords :
        \A d1, d2 \in b :
            (d1.fqdn = d2.fqdn \/ d1.serialNumber = d2.serialNumber) => d1 = d2}

StatusValues == [hostname : Hostnames, status : Statuses]

(* The `updates` mapping of one notification of the Devices dataset,       *)
(* entity id (serial number) -> {key, value}: the dataset carries one      *)
(* device per notification (rest/devices.py reads first(updates)).         *)
DeviceUpdates ==
    {EmptyDict} \cup
    {[x \in {sn} |-> [key |-> sn, value |-> v]] : sn \in Serials, v \in StatusValues}

Datasets ==
    {[notifications |-> n] :
        n \in SeqUpTo({[updates |-> u] : u \in DeviceUpdates}, MaxNotifs)}

(* The `labels` of a getLabels response: each label of the type once.      *)
LabelRecords == [key : TagKeys, netElementCount : NetElementCounts]
LabelLists ==
    {s \in SeqUpTo(LabelRecords, MaxLabels) :
        \A i, j \in 1..Len(s) : s[i].key = s[j].key => i = j}

(* The members of a set of hostnames as a list, in the order of HostNames. *)
RECURSIVE ListFrom(_, _)
ListFrom(S, i) ==
    IF i > Len(HostNames) THEN <<>>
    ELSE IF HostNames[i] \in S
         THEN <<[hostName |-> HostNames[i]]>> \o ListFrom(S, i + 1)
         ELSE ListFrom(S, i + 1)

(* The `data` of an applied-devices response: each device once.            *)
AppliedLists == {ListFrom(S, 1) : S \in SUBSET Hostnames}

----------------------------------------------------------------------------
(* Python dict helpers.                                                    *)

DictSet(d, k, v) == [x \in DOMAIN d \cup {k} |-> IF x = k THEN v ELSE d[x]]
DictDel(d, k) == [x \in DOMAIN d \ {k} |-> d[x]]
DictUpdate(d, e) ==
    [x \in DOMAIN d \cup DOMAIN e |-> IF x \in DOMAIN e THEN e[x] ELSE d[x]]

(* The keys of a dict keyed by serial number, as the sequence the loops    *)
(* walk; the outcome of every loop below is the same for any order.        *)
RECURSIVE KeysFrom(_, _)
KeysFrom(d, i) ==
    IF i > Len(SerialNames) THEN <<>>
    ELSE IF SerialNames[i] \in DOMAIN d
         THEN <<SerialNames[i]>> \o KeysFrom(d, i + 1)
         ELSE KeysFrom(d, i + 1)

Keys(d) == KeysFrom(d, 1)

----------------------------------------------------------------------------
(* cvppyez/rest/client.py: CVPRestClient.extracto_notifications            *)

(* Variant: an item id that is already a key keeps its first entry.       *)
RECURSIVE extracto_loop_first(_, _, _)
extracto_loop_first(notif_list, extract, items) ==
    IF notif_list = <<>> THEN items
    ELSE LET updates == Head(notif_list).updates
         IN  extracto_loop_first(Tail(notif_list), extract,
                 DictUpdate([item_id \in DOMAIN updates |->
                                updates[item_id][extract]], items))

RECURSIVE extracto_loop(_, _, _)
extracto_loop(notif_list, extract, items) ==
    IF notif_list = <<>> THEN items
    ELSE LET updates == Head(notif_list).updates
         IN  extracto_loop(Tail(notif_list), extract,
                 DictUpdate(items,
                     [item_id \in DOMAIN updates |-> updates[item_id][extract]]))

extracto_notifications(ds, extract) ==
    extracto_loop(ds.notifications, extract, EmptyDict)

----------------------------------------------------------------------------
(* cvppyez/nornir/plugin_inventory.py: CVPInventory.__init__               *)

(* hosts = {dev['fqdn']: dict(hostname=dev['ipAddress']) for dev in body}  *)
hosts_of(b) ==
    [f \in {dev.fqdn : dev \in b} |->
        [hostname |-> (CHOOSE dev \in b : dev.fqdn = f).ipAddress]]

(* sn_to_hn = {dev['serialNumber']: dev['fqdn'] for dev in body}           *)
sn_to_hn_of(b) ==
    [sn \in {dev.serialNumber : dev \in b} |->
        (CHOOSE dev \in b : dev.serialNumber = sn).fqdn]

(* (1) remove any hosts that are not active.  ok = FALSE is the KeyError   *)
(* of `del hosts[hostname]` for a hostname that is not a key of hosts.     *)
RECURSIVE remove_inactive_loop(_, _, _)
remove_inactive_loop(h, hs, keys) ==
    IF keys = <<>> THEN [ok |-> TRUE, hosts |-> h]
    ELSE LET host_ds == hs[Head(keys)]
             hostname == host_ds.hostname
         IN  IF host_ds.status # "active"
             THEN IF hostname \in DOMAIN h
                  THEN remove_inactive_loop(DictDel(h, hostname), hs, Tail(keys))
                  ELSE [ok |-> FALSE, hosts |-> h]
             ELSE remove_inactive_loop(h, hs, Tail(keys))

remove_inactive(h, hs) == remove_inactive_loop(h, hs, Keys(hs))

(* (2) remove any hosts that are not present in the status area.           *)
RECURSIVE remove_zombie_loop(_, _, _)
remove_zombie_loop(h, s2h, keys) ==
    IF keys = <<>> THEN [ok |-> TRUE, hosts |-> h]
    ELSE LET hostname == s2h[Head(keys)]
         IN  IF hostname \in DOMAIN h
             THEN remove_zombie_loop(DictDel(h, hostname), s2h, Tail(keys))
             ELSE [ok |-> FALSE, hosts |-> h]

(* Variant: the set difference is taken the other way round, and the      *)
(* hostname of each status record without a registry entry is discarded.   *)
remove_zombie_reversed(h, s2h, hs) ==
    LET host_sn_keys == DOMAIN s2h
        host_status_sn_keys == DOMAIN hs
        gone == {hs[sn].hostname : sn \in host_status_sn_keys \ host_sn_keys}
    IN  [ok |-> TRUE, hosts |-> [n \in DOMAIN h \ gone |-> h[n]]]

remove_zombie(h, s2h, hs) ==
    LET host_sn_keys == DOMAIN s2h
        host_status_sn_keys == DOMAIN hs
        nonexist == [sn \in host_sn_keys \ host_status_sn_keys |-> s2h[sn]]
    IN  remove_zombie_loop(h, s2h, Keys(nonexist))

(* GET /inventory/devices, raise_for_status, build hosts and sn_to_hn.      *)
FetchRegistry ==
    /\ pc = "ready"
    /\ \E ok \in BOOLEAN :
        /\ reqlog' = Append(reqlog, Sent("GET", INVENTORY, None, ok))
        /\ IF ok
           THEN \E b \in Registries :
                   /\ body' = b
                   /\ hosts' = hosts_of(b)
                   /\ sn_to_hn' = sn_to_hn_of(b)
                   /\ pc' = "status"
                   /\ UNCHANGED error
           ELSE /\ pc' = "error"
                /\ error' = Raise("HTTPError", "registry")
                /\ UNCHANGED <<body, hosts, sn_to_hn>>
    /\ UNCHANGED <<host_status, groupby_tags, groups, inventory>>
    /\ UNCHANGED <<session_vars, tag_vars, url_vars, decode_vars>>

(* Variant: the status response is decoded without raise_for_status; a     *)
(* failed response decodes to no notifications.                            *)
FetchStatus_unchecked ==
    /\ pc = "status"
    /\ \E ok \in BOOLEAN :
        /\ reqlog' = Append(reqlog, Sent("GET", ACTIVE_DEVICES, None, ok))
        /\ \E ds \in IF ok THEN Datasets ELSE {[notifications |-> <<>>]} :
               /\ host_status' = extracto_notifications(ds, "value")
               /\ pc' = "inactive"
               /\ UNCHANGED error
    /\ UNCHANGED <<body, hosts, sn_to_hn, groupby_tags, groups, inventory>>
    /\ UNCHANGED <<session_vars, tag_vars, url_vars, decode_vars>>

(* GET $a/DatasetInfo/Devices, raise_for_status, extracto_notifications.   *)
FetchStatus ==
    /\ pc = "status"
    /\ \E ok \in BOOLEAN :
        /\ reqlog' = Append(reqlog, Sent("GET", ACTIVE_DEVICES, None, ok))
        /\ IF ok
           THEN \E ds \in Datasets :
                   /\ host_status' = extracto_notifications(ds, "value")
                   /\ pc' = "inactive"
                   /\ UNCHANGED error
           ELSE /\ pc' = "error"
                /\ error' = Raise("HTTPError", "status")
                /\ UNCHANGED host_status
    /\ UNCHANGED <<body, hosts, sn_to_hn, groupby_tags, groups, inventory>>
    /\ UNCHANGED <<session_vars, tag_vars, url_vars, decode_vars>>

(* The loop of lines 69-73.                                                *)
RemoveInactive ==
    /\ pc = "inactive"
    /\ LET r == remove_inactive(hosts, host_status)
       IN  /\ hosts' = r.hosts
           /\ IF r.ok
              THEN pc' = "zombie" /\ UNCHANGED error
              ELSE pc' = "error" /\ error' = Raise("KeyError", "inactive")
    /\ UNCHANGED <<reqlog, body, sn_to_hn, host_status, groupby_tags,
                   groups, inventory>>
    /\ UNCHANGED <<session_vars, tag_vars, url_vars, decode_vars>>

(* The loop of lines 76-79, then `groups = {}`, the read of                *)
(* kwargs.get('groupby_tags') and its test.                                *)
RemoveZombie ==
    /\ pc = "zombie"
    /\ LET r == remove_zombie(hosts, sn_to_hn, host_status)
       IN  /\ hosts' = r.hosts
           /\ IF r.ok
              THEN /\ \E categories \in DistinctSeqs(Categories) :
                        /\ groupby_tags' = categories
                        /\ pc' = IF categories # <<>> THEN "getLabels"
                                 ELSE "deliver"
                   /\ UNCHANGED error
              ELSE /\ pc' = "error"
                   /\ error' = Raise("KeyError", "zombie")
                   /\ UNCHANGED groupby_tags
    /\ groups' = EmptyDict
    /\ UNCHANGED <<reqlog, body, sn_to_hn, host_status, inventory>>
    /\ UNCHANGED <<session_vars, tag_vars, url_vars, decode_vars>>

----------------------------------------------------------------------------
(* cvppyez/nornir/plugin_inventory.py: _get_tags                           *)

(* Variant: the test of netElementCount is missing.                        *)
skip_unused_never(labels) == labels

(* `if not tag_count: continue`: the records up to the next one that is    *)
(* processed are passed over.                                              *)
RECURSIVE skip_unused(_)
skip_unused(labels) ==
    IF labels = <<>> THEN <<>>
    ELSE IF Head(labels).netElementCount = 0 THEN skip_unused(Tail(labels))
    ELSE labels

(* for dev_rec in data: r_dev_tags[hostname].append(tag_key)               *)
RECURSIVE append_tag(_, _, _)
append_tag(dev_tags, data, tag_key) ==
    IF data = <<>> THEN dev_tags
    ELSE LET hostname == Head(data).hostName
             old == IF hostname \in DOMAIN dev_tags THEN dev_tags[hostname]
                    ELSE <<>>
         IN  append_tag(DictSet(dev_tags, hostname, Append(old, tag_key)),
                        Tail(data), tag_key)

(* Where _get_tags goes on once `rest` is what is left of the current      *)
(* category's records: the next applied-devices request, the next          *)
(* category, or the return to the caller.                                  *)
GoOn(rest) ==
    /\ cur_labels' = rest
    /\ IF rest # <<>>
       THEN pc' = "getAppliedDevices" /\ UNCHANGED tag_i
       ELSE IF tag_i < Len(groupby_tags)
       THEN pc' = "getLabels" /\ tag_i' = tag_i + 1
       ELSE pc' = "attach" /\ UNCHANGED tag_i

(* GET /label/getLabels.do?module=cvp&type=<tag_name>, raise_for_status.   *)
GetLabels ==
    /\ pc = "getLabels"
    /\ \E ok \in BOOLEAN :
        /\ reqlog' = Append(reqlog,
                        Sent("GET", GET_LABELS, groupby_tags[tag_i], ok))
        /\ IF ok
           THEN \E labels \in LabelLists :
                   /\ labels_got' = Append(labels_got,
                          [type |-> groupby_tags[tag_i], labels |-> labels])
                   /\ GoOn(skip_unused(labels))
                   /\ UNCHANGED error
           ELSE /\ pc' = "error"
                /\ error' = Raise("HTTPError", "labels")
                /\ UNCHANGED <<labels_got, cur_labels, tag_i>>
    /\ UNCHANGED <<applied_got, r_tags, r_dev_tags, groupby_tags, groups,
                   inventory>>
    /\ UNCHANGED <<session_vars, synth_vars, url_vars, decode_vars>>

(* r_tags.append(tag_key), then                                            *)
(* GET /label/getAppliedDevices.do?labelId=<tag_key>, raise_for_status,    *)
(* and the loop over the devices returned.                                 *)
GetAppliedDevices ==
    /\ pc = "getAppliedDevices"
    /\ LET tag_key == Head(cur_labels).key
       IN  /\ r_tags' = Append(r_tags, tag_key)
           /\ \E ok \in BOOLEAN :
               /\ reqlog' = Append(reqlog,
                               Sent("GET", GET_APPLIED_DEVICES, tag_key, ok))
               /\ IF ok
                  THEN \E data \in AppliedLists :
                          /\ applied_got' = Append(applied_got,
                                 [labelId |-> tag_key, data |-> data])
                          /\ r_dev_tags' = append_tag(r_dev_tags, data, tag_key)
                          /\ GoOn(skip_unused(Tail(cur_labels)))
                          /\ UNCHANGED error
                  ELSE /\ pc' = "error"
                       /\ error' = Raise("HTTPError", "appliedDevices")
                       /\ UNCHANGED <<applied_got, r_dev_tags, cur_labels, tag_i>>
    /\ UNCHANGED <<labels_got, groupby_tags, groups, inventory>>
    /\ UNCHANGED <<session_vars, synth_vars, url_vars, decode_vars>>

----------------------------------------------------------------------------
(* cvppyez/nornir/plugin_inventory.py: CVPInventory.__init__, lines 84-95  *)

(* Variant: hosts is a defaultdict, so a tagged name that is not a key     *)
(* is created.                                                             *)
attach_groups_creating(h, dev_tags) ==
    [ok |-> TRUE,
     hosts |-> [n \in DOMAIN h \cup DOMAIN dev_tags |->
                  IF n \in DOMAIN dev_tags
                  THEN DictSet(IF n \in DOMAIN h THEN h[n] ELSE EmptyDict,
                               "groups", dev_tags[n])
                  ELSE h[n]]]

(* Variant: every host is given dev_tags[name], the defaultdict's empty    *)
(* list when the host has no tag.                                          *)
attach_groups_all(h, dev_tags) ==
    IF DOMAIN dev_tags \subseteq DOMAIN h
    THEN [ok |-> TRUE,
          hosts |-> [n \in DOMAIN h |->
                       DictSet(h[n], "groups",
                           IF n \in DOMAIN dev_tags THEN dev_tags[n] ELSE <<>>)]]
    ELSE [ok |-> FALSE, hosts |-> h]

(* for dev_name, tag_list in dev_tags.items():                             *)
(*     hosts[dev_name]['groups'] = tag_list                                *)
(* ok = FALSE is the KeyError of hosts[dev_name].                          *)
attach_groups(h, dev_tags) ==
    IF DOMAIN dev_tags \subseteq DOMAIN h
    THEN [ok |-> TRUE,
          hosts |-> [n \in DOMAIN h |->
                       IF n \in DOMAIN dev_tags
                       THEN DictSet(h[n], "groups", dev_tags[n])
                       ELSE h[n]]]
    ELSE [ok |-> FALSE, hosts |-> h]

(* Variant: the groups are named after the requested categories.           *)
groups_of_categories(tags) == [tag_name \in Range(groupby_tags) |-> EmptyDict]

(* for tag_name in tags: groups[tag_name] = dict()                         *)
groups_of(tags) == [tag_name \in Range(tags) |-> EmptyDict]

AttachGroups ==
    /\ pc = "attach"
    /\ LET r == attach_groups(hosts, r_dev_tags)
       IN  IF r.ok
           THEN /\ hosts' = r.hosts
                /\ groups' = groups_of(r_tags)
                /\ pc' = "deliver"
                /\ UNCHANGED error
           ELSE /\ pc' = "error"
                /\ error' = Raise("KeyError", "groups")
                /\ UNCHANGED <<hosts, groups>>
    /\ UNCHANGED <<reqlog, body, sn_to_hn, host_status, groupby_tags,
                   inventory>>
    /\ UNCHANGED <<session_vars, tag_vars, url_vars, decode_vars>>

defaults == [platform |-> "eos"]

(* super().__init__(hosts=hosts, groups=groups, defaults=defaults)         *)
Deliver ==
    /\ pc = "deliver"
    /\ inventory' = <<[hosts |-> hosts, groups |-> groups, defaults |-> defaults]>>
    /\ pc' = "done"
    /\ UNCHANGED <<error, reqlog, groupby_tags, groups>>
    /\ UNCHANGED <<session_vars, synth_vars, tag_vars, url_vars, decode_vars>>

----------------------------------------------------------------------------
(* A request handed to CvpSession.prepare_request on its own.              *)

AddrChars == {"$", "/", "a", "r", "c", "n", "x"}

PrepareRequest ==
    /\ pc = "prepare"
    /\ prepared' = prepare_request(host_url, request_url)
    /\ IF prepared'.ok
       THEN pc' = "prepared" /\ UNCHANGED error
       ELSE pc' = "error" /\ error' = Raise("KeyError", "shortcut")
    /\ UNCHANGED <<request_url, reqlog, groupby_tags, groups, inventory>>
    /\ UNCHANGED <<session_vars, synth_vars, tag_vars, decode_vars>>

----------------------------------------------------------------------------
(* A payload handed to CVPRestClient.extracto_notifications on its own.    *)

ItemData == [key : {"k1", "k2"}, value : {"x", "y"}]
Updates == UNION {[S -> ItemData] : S \in SUBSET Serials}
Payloads ==
    {[notifications |-> n] : n \in SeqUpTo({[updates |-> u] : u \in Updates}, MaxNotifs)}

ExtractoNotifications ==
    /\ pc = "decode"
    /\ extracted' = extracto_notifications(dataset, extract_by)
    /\ pc' = "decoded"
    /\ UNCHANGED <<dataset, extract_by, error, reqlog, groupby_tags, groups, inventory>>
    /\ UNCHANGED <<session_vars, synth_vars, tag_vars, url_vars>>

----------------------------------------------------------------------------
(* Specifications.                                                         *)

NoArgs == [server |-> None, username |-> None, password |-> None, login |-> TRUE]

Blank ==
    /\ error = NoError
    /\ auth = [userId |-> None, password |-> None]
    /\ version = None
    /\ login_resp = [ok |-> FALSE, errorCode |-> FALSE]
    /\ reqlog = <<>>
    /\ body = {}
    /\ hosts = EmptyDict
    /\ sn_to_hn = EmptyDict
    /\ host_status = EmptyDict
    /\ tag_i = 1
    /\ cur_labels = <<>>
    /\ labels_got = <<>>
    /\ applied_got = <<>>
    /\ r_tags = <<>>
    /\ r_dev_tags = EmptyDict
    /\ groups = EmptyDict
    /\ inventory = <<>>

NoPayload ==
    /\ dataset = [notifications |-> <<>>]
    /\ extract_by = "value"
    /\ extracted = EmptyDict

(* The Nornir plugin: CVPInventory(config, groupby_tags=...) builds its    *)
(* client with CVPRestClient(), so every credential comes from the         *)
(* environment (get_inventory.py reads CVP_SERVER, CVP_USER, CVP_PASSWORD).*)
NornirEnvs ==
    {e \in [EnvNames -> {None, ValueNames[1]}] :
        e["USER"] = None /\ e["PASSWORD"] = None}

Init ==
    /\ pc = "init"
    /\ args = NoArgs
    /\ env \in NornirEnvs
    /\ groupby_tags = <<>>
    /\ host_url = <<>>
    /\ request_url = <<>>
    /\ prepared = [ok |-> TRUE, url |-> <<>>]
    /\ NoPayload
    /\ Blank

Next ==
    \/ CvpSessionInit
    \/ LoginAuthenticate
    \/ LoginVersion
    \/ FetchRegistry
    \/ FetchStatus
    \/ RemoveInactive
    \/ RemoveZombie
    \/ GetLabels
    \/ GetAppliedDevices
    \/ AttachGroups
    \/ Deliver

Spec == Init /\ [][Next]_vars

(* CvpSession(server, username, password, login) on its own.               *)
ArgValues == {None, "", "arg"}
EnvValues == {None, ""} \cup Values

InitSession ==
    /\ pc = "init"
    /\ args \in [server : ArgValues, username : ArgValues,
                 password : ArgValues, login : BOOLEAN]
    /\ env \in [EnvNames -> EnvValues]
    /\ groupby_tags = <<>>
    /\ host_url = <<>>
    /\ request_url = <<>>
    /\ prepared = [ok |-> TRUE, url |-> <<>>]
    /\ NoPayload
    /\ Blank

NextSession ==
    \/ CvpSessionInit
    \/ LoginAuthenticate
    \/ LoginVersion

SpecSession == InitSession /\ [][NextSession]_vars

(* CvpSession.prepare_request on every short address.                      *)
InitURL ==
    /\ pc = "prepare"
    /\ args = NoArgs
    /\ env = [n \in EnvNames |-> None]
    /\ groupby_tags = <<>>
    /\ host_url \in {<<"https://", v>> : v \in Values}
    /\ request_url \in SeqUpTo(AddrChars, MaxAddrLen)
    /\ prepared = [ok |-> TRUE, url |-> <<>>]
    /\ NoPayload
    /\ Blank

NextURL == PrepareRequest

SpecURL == InitURL /\ [][NextURL]_vars

(* CVPRestClient.extracto_notifications on every short payload.            *)
InitDecode ==
    /\ pc = "decode"
    /\ args = NoArgs
    /\ env = [n \in EnvNames |-> None]
    /\ groupby_tags = <<>>
    /\ host_url = <<>>
    /\ request_url = <<>>
    /\ prepared = [ok |-> TRUE, url |-> <<>>]
    /\ dataset \in Payloads
    /\ extract_by \in {"value", "key"}
    /\ extracted = EmptyDict
    /\ Blank

NextDecode == ExtractoNotifications

SpecDecode == InitDecode /\ [][NextDecode]_vars

----------------------------------------------------------------------------
(* Properties of inventory synthesis.                                      *)

Delivered == inventory # <<>>
Result == inventory[1]
RegistryNames == {dev.fqdn : dev \in body}
StatusNames == {host_status[sn].hostname : sn \in DOMAIN host_status}
AppliedNames(data) == {data[i].hostName : i \in 1..Len(data)}
HasGroups(h) == "groups" \in DOMAIN Result.hosts[h]

(* C1: whenever synthesis returns a result, every hostname of the          *)
(* resulting hosts map is the fqdn of a record of the registry snapshot;   *)
(* a hostname known only from the status dataset is not in the result.     *)
C1_ResultWithinRegistry ==
    Delivered =>
        /\ DOMAIN Result.hosts \subseteq RegistryNames
        /\ \A n \in StatusNames \ RegistryNames : n \notin DOMAIN Result.hosts

(* A result was returned although the status dataset names a host that     *)
(* the registry does not know, and some registered host survived.          *)
C1_Witness ==
    /\ Delivered
    /\ StatusNames \ RegistryNames # {}
    /\ DOMAIN Result.hosts # {}

(* C2: whenever synthesis returns a result, no registered device whose     *)
(* status record (the entry under its serial number) is not 'active' is    *)
(* in the resulting hosts map, whatever hostname that record carries.      *)
C2_NoInactiveInResult ==
    Delivered =>
        \A dev \in body :
            (/\ dev.serialNumber \in DOMAIN host_status
             /\ host_status[dev.serialNumber].status # "active")
                => dev.fqdn \notin DOMAIN Result.hosts

(* C3: whenever synthesis returns a result, no registered device whose     *)
(* serial number is not a key of the decoded status dataset is in the      *)
(* resulting hosts map.                                                    *)
C3_NoZombieInResult ==
    Delivered =>
        \A dev \in body :
            dev.serialNumber \notin DOMAIN host_status
                => dev.fqdn \notin DOMAIN Result.hosts

(* A result was returned for a registry that held a zombie next to a       *)
(* host that survived.                                                     *)
C3_Witness ==
    /\ Delivered
    /\ \E dev \in body : dev.serialNumber \notin DOMAIN host_status
    /\ DOMAIN Result.hosts # {}

(* The label records with netElementCount > 0 among those the server       *)
(* returned, in the order returned; the i-th of them is the tag whose      *)
(* applied devices are the i-th applied-devices response.                  *)
RECURSIVE AllLabels(_)
AllLabels(got) ==
    IF got = <<>> THEN <<>> ELSE Head(got).labels \o AllLabels(Tail(got))

IsUsed(record) == record.netElementCount > 0
UsedLabels == SelectSeq(AllLabels(labels_got), IsUsed)

TagsListingIn(used, h) ==
    {used[i].key : i \in {j \in 1..Len(used) :
        j <= Len(applied_got) /\ h \in AppliedNames(applied_got[j].data)}}

TagsListing(h) == TagsListingIn(UsedLabels, h)

(* C4: in a returned hosts map a host has a 'groups' key if and only if    *)
(* categories were supplied and some tag with netElementCount > 0 of a     *)
(* requested category lists it among its applied devices; the list is      *)
(* then non-empty and holds exactly the keys of those tags.                *)
C4_GroupsIffTagged ==
    Delivered =>
        LET used == UsedLabels
        IN  \A h \in DOMAIN Result.hosts :
                LET listing == TagsListingIn(used, h)
                IN  /\ HasGroups(h) <=> (groupby_tags # <<>> /\ listing # {})
                    /\ HasGroups(h) =>
                         /\ Result.hosts[h].groups # <<>>
                         /\ Range(Result.hosts[h].groups) = listing

(* A result in which one host carries groups and another does not.         *)
C4_Witness ==
    /\ Delivered
    /\ \E h1, h2 \in DOMAIN Result.hosts : HasGroups(h1) /\ ~HasGroups(h2)

ReturnedKeys == {r.key : r \in Range(AllLabels(labels_got))}
UsedKeys == {UsedLabels[i].key : i \in 1..Len(UsedLabels)}
AppliedRequests ==
    SelectSeq(reqlog, LAMBDA r : r.url = host_url \o <<"/web">> \o GET_APPLIED_DEVICES)

(* C5: a tag record returned with netElementCount = 0 contributes          *)
(* nothing: the tag-key list holds exactly the keys of the records with a  *)
(* count above 0, one applied-devices request is issued per such record    *)
(* and none for any other, and a key returned only with count 0 is in no   *)
(* host's tag list and is no group.                                        *)
C5_UnusedTagContributesNothing ==
    LET used == UsedLabels
        requests == AppliedRequests
        unused == ReturnedKeys \ {used[i].key : i \in 1..Len(used)}
    IN  /\ \A i \in 1..Len(r_tags) : i <= Len(used) /\ r_tags[i] = used[i].key
        /\ Len(requests) = Len(r_tags)
        /\ \A i \in 1..Len(requests) : requests[i].param = r_tags[i]
        /\ pc \in {"attach", "deliver", "done"} => Len(r_tags) = Len(used)
        /\ \A key \in unused :
            /\ key \notin DOMAIN groups
            /\ \A h \in DOMAIN r_dev_tags : key \notin Range(r_dev_tags[h])
            /\ Delivered =>
                 /\ key \notin DOMAIN Result.groups
                 /\ \A h \in DOMAIN Result.hosts :
                        HasGroups(h) => key \notin Range(Result.hosts[h].groups)

(* A result with groups, obtained although the server also returned a      *)
(* tag with netElementCount = 0 that no other record uses.                 *)
C5_Witness ==
    /\ Delivered
    /\ ReturnedKeys \ UsedKeys # {}
    /\ DOMAIN Result.groups # {}

(* C6: in every returned result each tag key in some host's 'groups' list  *)
(* is a key of the groups mapping, each group definition is empty, and     *)
(* the groups mapping has one entry per distinct tag key accumulated.      *)
C6_GroupsDefined ==
    Delivered =>
        /\ \A h \in DOMAIN Result.hosts :
              HasGroups(h) => Range(Result.hosts[h].groups) \subseteq DOMAIN Result.groups
        /\ \A g \in DOMAIN Result.groups : Result.groups[g] = EmptyDict
        /\ DOMAIN Result.groups = Range(r_tags)
        /\ Cardinality(DOMAIN Result.groups) = Cardinality(UsedKeys)

(* A result where the same tag key was accumulated twice (once per         *)
(* category) and a host carries it.                                        *)
C6_Witness ==
    /\ Delivered
    /\ Len(r_tags) > Cardinality(Range(r_tags))
    /\ \E h \in DOMAIN Result.hosts : HasGroups(h)

----------------------------------------------------------------------------
(* Properties of the session.                                              *)

Base(k) ==
    CASE k = "a" -> "/api/v1/rest/analytics"
      [] k = "r" -> "/api/v1/rest"
      [] k = "c" -> "/cvpservice"
      [] k = "n" -> "/api/v1/rest/analytics/network/v1"

Recognized == {"a", "r", "c", "n"}
HasShortcut(url) ==
    Len(url) >= 3 /\ url[1] = "$" /\ url[2] \in Recognized /\ url[3] = "/"

(* The text of an address up to its first '/', all of it when it has none. *)
Token(url) ==
    IF \E i \in 1..Len(url) : url[i] = "/"
    THEN SubSeq(url, 1, (CHOOSE i \in 1..Len(url) :
                            url[i] = "/" /\ \A j \in 1..(i - 1) : url[j] # "/") - 1)
    ELSE url

UnknownShortcut(url) ==
    /\ Len(url) >= 1
    /\ url[1] = "$"
    /\ ~\E k \in Recognized : Token(url) = <<"$", k>>

C8_LoginOnlyWithoutErrorCode ==
    (args.login /\ (pc = "ready" \/ version # None)) =>
        /\ login_resp.ok
        /\ ~login_resp.errorCode
        /\ Len(reqlog) = 2
        /\ reqlog[2].ok

HasValue(v) == v # None /\ v # ""

Resolved(name) ==
    IF HasValue(args[name]) THEN args[name]
    ELSE CASE name = "server" ->
                IF HasValue(env["CVP_SERVER"]) THEN env["CVP_SERVER"] ELSE None
           [] name = "username" ->
                IF HasValue(env["CVP_USER"]) THEN env["CVP_USER"]
                ELSE IF HasValue(env["USER"]) THEN env["USER"] ELSE None
           [] name = "password" ->
                IF HasValue(env["CVP_PASSWORD"]) THEN env["CVP_PASSWORD"]
                ELSE IF HasValue(env["PASSWORD"]) THEN env["PASSWORD"] ELSE None

(* C9: server, username and password are each the explicit argument when   *)
(* it has a value and otherwise the first environment variable with a      *)
(* value, in the order CVP_SERVER; CVP_USER, USER; CVP_PASSWORD, PASSWORD  *)
(* (an empty string is no value).  When one of the three has no value,     *)
(* construction fails with an error and no request has been issued.        *)
C9_CredentialsBeforeNetwork ==
    /\ pc = "init" => reqlog = <<>>
    /\ pc # "init" =>
        IF \A name \in {"server", "username", "password"} : HasValue(Resolved(name))
        THEN /\ error.type # "RuntimeError"
             /\ host_url = <<"https://", Resolved("server")>>
             /\ auth = [userId |-> Resolved("username"),
                        password |-> Resolved("password")]
        ELSE /\ pc = "error"
             /\ error.type = "RuntimeError"
             /\ reqlog = <<>>
             /\ version = None

(* Construction failed on the password, after the server came from         *)
(* CVP_SERVER and the username from the fallback USER; nothing was sent.   *)
C9_Witness ==
    /\ pc = "error"
    /\ error = Raise("RuntimeError", "password")
    /\ ~HasValue(args.server) /\ ~HasValue(args.username)
    /\ ~HasValue(env["CVP_USER"]) /\ HasValue(env["USER"])
    /\ host_url = <<"https://", env["CVP_SERVER"]>>
    /\ reqlog = <<>>

(* The requests a run of the plugin issues, in order, as method and URL.   *)
MethodsAndUrls(log) == [i \in 1..Len(log) |-> <<log[i].method, log[i].url>>]

Handshake ==
    << <<"POST", host_url \o <<"/web", "/login/authenticate.do">> >>,
       <<"GET", host_url \o <<"/web", "/cvpInfo/getCvpInfo.do">> >> >>

Fetches ==
    << <<"GET", host_url \o <<"/web", "/inventory/devices">> >>,
       <<"GET", host_url \o <<"/api/v1/rest/analytics", "/", "DatasetInfo/Devices">> >> >>

IsTagRequest(r) ==
    /\ r.method = "GET"
    /\ r.url \in {host_url \o <<"/web", "/label/getLabels.do">>,
                  host_url \o <<"/web", "/label/getAppliedDevices.do">>}

IsPrefix(s, t) == Len(s) <= Len(t) /\ s = SubSeq(t, 1, Len(s))

(* C10: synthesis issues the registry request, then the status request,    *)
(* then tag requests only when categories are supplied; a request with a   *)
(* non-success status is the last one issued, ends the run with that       *)
(* error and leaves no inventory; an inventory is delivered only when      *)
(* every fetch has succeeded and both removal passes have run.             *)
C10_AllOrNothing ==
    /\ \/ /\ Len(reqlog) <= 4
          /\ IsPrefix(MethodsAndUrls(reqlog), Handshake \o Fetches)
       \/ /\ Len(reqlog) > 4
          /\ MethodsAndUrls(SubSeq(reqlog, 1, 4)) = Handshake \o Fetches
          /\ groupby_tags # <<>>
          /\ \A i \in 5..Len(reqlog) : IsTagRequest(reqlog[i])
    /\ \A i \in 1..Len(reqlog) :
          ~reqlog[i].ok =>
              /\ i = Len(reqlog)
              /\ pc = "error"
              /\ error.type = "HTTPError"
    /\ pc = "error" => ~Delivered
    /\ Delivered =>
          /\ pc = "done"
          /\ error = NoError
          /\ \A i \in 1..Len(reqlog) : reqlog[i].ok
          /\ Len(reqlog) >= 4
          /\ MethodsAndUrls(SubSeq(reqlog, 1, 4)) = Handshake \o Fetches
          /\ Len(SelectSeq(reqlog, LAMBDA r :
                    r.url = host_url \o <<"/web", "/label/getLabels.do">>))
                = Len(groupby_tags)
          /\ LET a == remove_inactive(hosts_of(body), host_status)
                 b == remove_zombie(a.hosts, sn_to_hn_of(body), host_status)
             IN  a.ok /\ b.ok /\ DOMAIN Result.hosts = DOMAIN b.hosts

(* A tag request failed after the registry and the status were fetched     *)
(* and both removal passes had run: the run ended without an inventory.    *)
C10_Witness ==
    /\ pc = "error"
    /\ error.type = "HTTPError"
    /\ Len(reqlog) >= 5
    /\ DOMAIN hosts # {}
    /\ ~Delivered

----------------------------------------------------------------------------
(* Properties of group attachment and of the removal passes.               *)

TaggedNames == DOMAIN r_dev_tags
AttachRan ==
    \/ pc \in {"deliver", "done"}
    \/ pc = "error" /\ error = Raise("KeyError", "groups")

(* C11: when categories are supplied and a tag's applied-device list       *)
(* names a host that is not (or no longer) a key of hosts, synthesis still *)
(* completes: that name is skipped and stays absent, every surviving       *)
(* tagged host gets its tag list as groups, and the tags' group            *)
(* definitions are created.                                                *)
C11_AbsentTaggedHostSkipped ==
    (AttachRan /\ groupby_tags # <<>> /\ TaggedNames \ DOMAIN hosts # {}) =>
        /\ pc # "error"
        /\ \A n \in TaggedNames \cap DOMAIN hosts :
              /\ "groups" \in DOMAIN hosts[n]
              /\ hosts[n].groups = r_dev_tags[n]
        /\ DOMAIN groups = Range(r_tags)
        /\ pc = "done" => Delivered /\ Result.hosts = hosts

NonActiveNames ==
    {host_status[sn].hostname :
        sn \in {k \in DOMAIN host_status : host_status[k].status # "active"}}
PassARan ==
    \/ pc = "zombie"
    \/ pc = "error" /\ error = Raise("KeyError", "inactive")

(* C12: removal pass A never fails the run: the hostname of every status   *)
(* record that is not 'active' is removed from hosts when it is a key and  *)
(* is skipped when it is not (unregistered, or removed by an earlier       *)
(* record), and synthesis goes on to pass B.                               *)
C12_PassANeverFails ==
    PassARan =>
        /\ pc = "zombie"
        /\ error = NoError
        /\ DOMAIN hosts = RegistryNames \ NonActiveNames

ZombieNames == {sn_to_hn[sn] : sn \in DOMAIN sn_to_hn \ DOMAIN host_status}

(* Lines 68-79 as written, and with the two loops exchanged.               *)
inactive_then_zombie(h, s2h, hs) ==
    LET a == remove_inactive(h, hs)
    IN  IF a.ok THEN remove_zombie(a.hosts, s2h, hs) ELSE a

zombie_then_inactive(h, s2h, hs) ==
    LET b == remove_zombie(h, s2h, hs)
    IN  IF b.ok THEN remove_inactive(b.hosts, hs) ELSE b

(* Both orders of the passes end alike: both fail, or both succeed with    *)
(* the same hosts.                                                         *)
SameOutcomeEitherOrder ==
    pc = "inactive" =>
        LET ab == inactive_then_zombie(hosts, sn_to_hn, host_status)
            ba == zombie_then_inactive(hosts, sn_to_hn, host_status)
        IN  /\ ab.ok = ba.ok
            /\ ab.ok => ab.hosts = ba.hosts

(* C13: the two removal passes are independent: for every registry and     *)
(* status dataset, pass A then pass B ends with the same hosts and the     *)
(* same success or failure as pass B then pass A, and no host is selected  *)
(* for removal by both passes.                                             *)
C13_PassesIndependent ==
    /\ SameOutcomeEitherOrder
    /\ pc = "inactive" => NonActiveNames \cap ZombieNames = {}

----------------------------------------------------------------------------
(* Properties of notification decoding.                                    *)

Batch == dataset.notifications
EntityIds == UNION {DOMAIN Batch[i].updates : i \in 1..Len(Batch)}
LastWith(id) ==
    CHOOSE i \in 1..Len(Batch) :
        /\ id \in DOMAIN Batch[i].updates
        /\ \A j \in (i + 1)..Len(Batch) : id \notin DOMAIN Batch[j].updates

(* C14: decoding is last-write-wins over the ordered batch: the decoded    *)
(* mapping's keys are exactly the entity ids occurring in any record's     *)
(* updates, and each holds the chosen field (value or key) of the last     *)
(* record in batch order that contains the entity id.                      *)
C14_LastWriteWins ==
    pc = "decoded" =>
        /\ DOMAIN extracted = EntityIds
        /\ \A id \in EntityIds :
              extracted[id] = Batch[LastWith(id)].updates[id][extract_by]

(* A decoded batch in which two records carry the same entity id with      *)
(* different keys, next to an entity id that only the first record has.    *)
C14_Witness ==
    /\ pc = "decoded"
    /\ extract_by = "key"
    /\ Len(Batch) >= 2
    /\ \E id \in DOMAIN Batch[1].updates \cap DOMAIN Batch[2].updates :
          /\ Batch[1].updates[id].key # Batch[2].updates[id].key
          /\ extracted[id] = Batch[2].updates[id].key
    /\ DOMAIN Batch[1].updates \ DOMAIN Batch[2].updates # {}

====
